---------------------------- MODULE Spec2Model ----------------------------
(***************************************************************************)
(* Model of packages/core/src/container.ts (class Container): the slot      *)
(* store, the stack merger (addItem), remove/take/swap, the occupancy       *)
(* tracker (show/close) and the container identifier allocator.             *)
(*                                                                          *)
(* Item stacks are heap objects with identity (JavaScript references): a    *)
(* slot holds a reference, and the caller may hold a reference to the same  *)
(* object.  The ItemStack class itself lives in ./item, which is not part   *)
(* of the examined sources; its operations are modelled as plain field      *)
(* updates (see the "ItemStack" section).                                   *)
(***************************************************************************)
EXTENDS Integers, Sequences, FiniteSets, TLC

(***************************************************************************)
(* Bounds of the model                                                      *)
(***************************************************************************)
MaxSize == 2          \* capacity of the larger container
MaxItems == 4         \* item stack objects alive at once
MaxTraits == 4        \* trait objects alive at once
MaxAmount == 3        \* largest amount / stack size a caller passes
ContainerIdLast == 3  \* ContainerId.Last, scaled down (100 in the protocol)
MaxShows == 2         \* show calls in the synchronisation specification

(***************************************************************************)
(* Program constants                                                        *)
(***************************************************************************)
ContainerIdFirst == 1      \* ContainerId.First
ContainerIdInventory == 0  \* ContainerId.Inventory, used as a fixed override

Containers == {"c1", "c2"}
Players == {"p1", "p2"}
NoContainer == "none"      \* a null Container reference

Null == 0                  \* JavaScript null in a storage position / reference
Undefined == -1            \* an array position that holds no property
NoEntry == -1              \* occupants.has(player) is false
NoOverride == -2           \* identifier === null: no fixed override configured

ItemIds == 1..MaxItems
TraitIds == 1..MaxTraits

\* Item types of the catalog: two stackable types, a non-stackable one, and Air.
Types == {"A", "B", "T", "Air"}
TraitKinds == {"k1", "k2"}

VARIABLES
  items,            \* heap of ItemStack objects: ItemIds -> record
  traitKind,        \* heap of trait objects: TraitIds -> kind, or "free"
  storage,          \* storage[c][i]: the array's property i (reference, Null, Undefined)
  size,             \* size[c]: storage.length
  occupants,        \* occupants[c][p]: assigned identifier, or NoEntry
  openedContainer,  \* openedContainer[p]: player.openedContainer
  identifier,       \* identifier[c]: the identifier override, or NoOverride
  nextContainerId,  \* Container.nextContainerId
  held,             \* the ItemStack reference the caller holds (or Null)
  sent,             \* sent[p]: packets delivered to p by the current/last call
  lastId,           \* the value getNextContainerId returned last (0: never called)
  call              \* the current/last call: its arguments, result and pre-state

vars == <<items, traitKind, storage, size, occupants, openedContainer,
          identifier, nextContainerId, held, sent, lastId, call>>

\* Every index a resolved slot can take: JavaScript's % keeps the dividend's sign.
IdxDom == (0 - (MaxSize - 1))..(MaxSize - 1)

Min(a, b) == IF a < b THEN a ELSE b

(***************************************************************************)
(* ItemStack (./item): plain fields                                         *)
(***************************************************************************)
FreeItem == [type |-> "free", stackSize |-> 0, props |-> {}, traits |-> {},
             container |-> NoContainer]

\* item.isStackable, by the type's rule
IsStackable(t) == t \in {"A", "B", "Air"}

\* item.maxStackSize, by the type's rule
MaxStackSize(t) == CASE t = "A" -> 3
                     [] t = "B" -> 2
                     [] t = "Air" -> 2
                     [] OTHER -> 1

\* item.equals(other): type compatibility, not instance identity
Equals(a, b) == a.type = b.type

\* item.incrementStack(n)
IncrementStack(it, n) == [it EXCEPT !.stackSize = @ + n]

\* item.decrementStack(n)
DecrementStack(it, n) == [it EXCEPT !.stackSize = @ - n]

\* new ItemStack(type, { stackSize }): a fresh object without auxiliary state
NewItemStack(t, n) == [type |-> t, stackSize |-> n, props |-> {}, traits |-> {},
                       container |-> NoContainer]

\* ItemStack.toNetworkStack(item), or new NetworkItemStackDescriptor(0)
EmptyDescriptor == [type |-> "empty", stackSize |-> 0]
ToNetworkStack(it) == [type |-> it.type, stackSize |-> it.stackSize]


(***************************************************************************)
(* Initial heap and storage, and the record of the current/last call        *)
(***************************************************************************)
InitItems == [i \in ItemIds |-> FreeItem]
InitTraitKind == [t \in TraitIds |-> "free"]
InitSize == [c \in Containers |-> IF c = "c1" THEN MaxSize ELSE 1]
InitStorage == [c \in Containers |->
                 [i \in IdxDom |-> IF 0 <= i /\ i < InitSize[c] THEN Null
                                                                  ELSE Undefined]]

\* op/pc: the call and its position; c, p, idx (the slot as resolved),
\* other, oc, amount, flag: arguments; ret, id, ok, err: results; item, src,
\* srcSize, itemBefore, sumBefore, absorbing: what the call found when it
\* started (absorbing: the slots that were empty or held a compatible,
\* not-yet-full stack).
NoCall == [op |-> "none", pc |-> "idle", c |-> NoContainer, p |-> "none",
           idx |-> 0, other |-> 0, oc |-> NoContainer, amount |-> 0,
           flag |-> FALSE, ret |-> Null, id |-> 0, ok |-> FALSE, err |-> FALSE,
           item |-> Null, src |-> Null, srcSize |-> 0, itemBefore |-> 0,
           sumBefore |-> 0, absorbing |-> {}]

Idle == call.pc = "idle"

NoPackets == [p \in Players |-> << >>]

(***************************************************************************)
(* Occupancy tracker                                                        *)
(***************************************************************************)
\* Container.type, fixed at construction
ContainerType(c) == IF c = "c1" THEN "Container" ELSE "Inventory"

\* getNextContainerId(): the identifier returned and the counter left behind
GetNextContainerIdMutantNoWrap(next) == [id |-> next, next |-> next + 1]
GetNextContainerId(next) ==
  LET id == next
      bumped == next + 1
  IN IF id > ContainerIdLast
       THEN [id |-> ContainerIdFirst, next |-> ContainerIdFirst]
       ELSE [id |-> id, next |-> bumped]

\* the packet close() builds
ClosePacketMutantServer(c, id, serverInitiated) ==
  [kind |-> "close", containerId |-> id, type |-> ContainerType(c),
   serverInitiated |-> TRUE, slot |-> 0, items |-> << >>]
ClosePacket(c, id, serverInitiated) ==
  [kind |-> "close", containerId |-> id, type |-> ContainerType(c),
   serverInitiated |-> serverInitiated, slot |-> 0, items |-> << >>]

\* close(player, serverInitiated) on a container that has the player's entry:
\* the occupancy state it leaves
CloseOpMutantKeepOpened(o, c, p, serverInitiated) ==
  [o EXCEPT !.sent[p] = Append(@, ClosePacket(c, o.occupants[c][p], serverInitiated)),
            !.occupants[c][p] = NoEntry]
CloseOp(o, c, p, serverInitiated) ==
  [o EXCEPT !.sent[p] = Append(@, ClosePacket(c, o.occupants[c][p], serverInitiated)),
            !.openedContainer[p] = NoContainer,
            !.occupants[c][p] = NoEntry]

Occ == [occupants |-> occupants, openedContainer |-> openedContainer,
        sent |-> NoPackets]

\* close(player, serverInitiated): throws when the player has no entry
Close(c, p, serverInitiated) ==
  /\ Idle
  /\ IF occupants[c][p] = NoEntry
       THEN /\ call' = [NoCall EXCEPT !.op = "close", !.c = c, !.p = p,
                                      !.flag = serverInitiated, !.err = TRUE]
            /\ sent' = NoPackets
            /\ UNCHANGED <<occupants, openedContainer>>
       ELSE LET o == CloseOp(Occ, c, p, serverInitiated)
            IN /\ occupants' = o.occupants
               /\ openedContainer' = o.openedContainer
               /\ sent' = o.sent
               /\ call' = [NoCall EXCEPT !.op = "close", !.c = c, !.p = p,
                                         !.flag = serverInitiated,
                                         !.id = occupants[c][p]]
  /\ UNCHANGED <<items, traitKind, storage, size, identifier, nextContainerId,
                 held, lastId>>

\* show(player)
Show(c, p) ==
  /\ Idle
  /\ LET prev == openedContainer[p]
     IN IF prev # NoContainer /\ occupants[prev][p] = NoEntry
          THEN \* the inner close throws before anything changed
               /\ call' = [NoCall EXCEPT !.op = "show", !.c = c, !.p = p,
                                         !.oc = prev, !.err = TRUE]
               /\ sent' = NoPackets
               /\ UNCHANGED <<occupants, openedContainer, nextContainerId, lastId>>
          ELSE LET o1 == IF prev # NoContainer THEN CloseOp(Occ, prev, p, TRUE)
                                                ELSE Occ
                   r == GetNextContainerId(nextContainerId)
               IN /\ occupants' = [o1.occupants EXCEPT ![c][p] = r.id]
                  /\ openedContainer' = [o1.openedContainer EXCEPT ![p] = c]
                  /\ nextContainerId' = r.next
                  /\ lastId' = r.id
                  /\ sent' = o1.sent
                  /\ call' = [NoCall EXCEPT !.op = "show", !.c = c, !.p = p,
                                            !.oc = prev, !.id = r.id]
  /\ UNCHANGED <<items, traitKind, storage, size, identifier, held>>

\* a direct call of the public static Container.getNextContainerId()
NextContainerId ==
  /\ Idle
  /\ LET r == GetNextContainerId(nextContainerId)
     IN /\ nextContainerId' = r.next
        /\ lastId' = r.id
        /\ call' = [NoCall EXCEPT !.op = "getNextContainerId", !.id = r.id]
  /\ sent' = NoPackets
  /\ UNCHANGED <<items, traitKind, storage, size, occupants, openedContainer,
                 identifier, held>>

\* show(player), first statement: the container the player has open is closed
\* for it, with close's default serverInitiated = true
ShowCloseFirstMutantSkip(o, p) == o
ShowCloseFirst(o, p) ==
  IF o.openedContainer[p] # NoContainer
    THEN CloseOp(o, o.openedContainer[p], p, TRUE)
    ELSE o

\* show(player) in two steps, for what holds inside the call: ShowBegin runs
\* the close of the container the player has open, ShowEnd the rest
ShowBegin(c, p) ==
  /\ Idle
  /\ LET prev == openedContainer[p]
     IN IF prev # NoContainer /\ occupants[prev][p] = NoEntry
          THEN /\ call' = [NoCall EXCEPT !.op = "show", !.c = c, !.p = p,
                                         !.oc = prev, !.err = TRUE]
               /\ sent' = NoPackets
               /\ UNCHANGED <<occupants, openedContainer>>
          ELSE LET o1 == ShowCloseFirst(Occ, p)
               IN /\ occupants' = o1.occupants
                  /\ openedContainer' = o1.openedContainer
                  /\ sent' = o1.sent
                  /\ call' = [NoCall EXCEPT !.op = "show", !.pc = "register",
                                            !.c = c, !.p = p, !.oc = prev]
  /\ UNCHANGED <<items, traitKind, storage, size, identifier, nextContainerId,
                 held, lastId>>

ShowEnd ==
  /\ call.op = "show" /\ call.pc = "register"
  /\ LET r == GetNextContainerId(nextContainerId)
     IN /\ occupants' = [occupants EXCEPT ![call.c][call.p] = r.id]
        /\ openedContainer' = [openedContainer EXCEPT ![call.p] = call.c]
        /\ nextContainerId' = r.next
        /\ lastId' = r.id
        /\ call' = [call EXCEPT !.pc = "idle", !.id = r.id]
  /\ UNCHANGED <<items, traitKind, storage, size, identifier, held, sent>>

\* container.identifier = v: the owner configures the fixed override
SetIdentifier(c, v) ==
  /\ Idle
  /\ identifier[c] = NoOverride
  /\ identifier' = [identifier EXCEPT ![c] = v]
  /\ call' = [NoCall EXCEPT !.op = "setIdentifier", !.c = c, !.id = v]
  /\ sent' = NoPackets
  /\ UNCHANGED <<items, traitKind, storage, size, occupants, openedContainer,
                 nextContainerId, held, lastId>>

(***************************************************************************)
(* Slot store.  The handlers call one another, so each is an operator from  *)
(* a world w = [items, traitKind, storage, sent] to the world it leaves.    *)
(***************************************************************************)
World == [items |-> items, traitKind |-> traitKind, storage |-> storage,
          sent |-> NoPackets]

\* JavaScript's a % n for n > 0: the result keeps the sign of the dividend
JsMod(a, n) == IF a >= 0 THEN a % n ELSE 0 - ((0 - a) % n)

Slots(c) == 0..(size[c] - 1)

IsRef(v) == v \in ItemIds

\* this.storage[slot] ?? null
Read(w, c, i) == IF IsRef(w.storage[c][i]) THEN w.storage[c][i] ELSE Null

\* getItem(slot)
GetItemOp(w, c, slot) == Read(w, c, JsMod(slot, size[c]))

\* this.storage.at(slot): a negative index counts back from the end
At(w, c, i) ==
  LET j == IF i >= 0 THEN i ELSE size[c] + i
  IN IF j \in Slots(c) THEN Read(w, c, j) ELSE Null

\* the packet updateSlot() builds
SlotPacket(w, c, slot, id) ==
  [kind |-> "slot", containerId |-> id, slot |-> slot,
   items |-> << IF At(w, c, slot) # Null THEN ToNetworkStack(w.items[At(w, c, slot)])
                                         ELSE EmptyDescriptor >>,
   type |-> ContainerType(c), serverInitiated |-> FALSE]

\* updateSlot(slot): one packet to every occupant
UpdateSlotOpMutantAll(w, c, slot) ==
  [w EXCEPT !.sent = [p \in Players |->
      Append(w.sent[p], SlotPacket(w, c, slot, occupants[c][p]))]]
UpdateSlotOp(w, c, slot) ==
  [w EXCEPT !.sent = [p \in Players |->
      IF occupants[c][p] # NoEntry
        THEN Append(w.sent[p], SlotPacket(w, c, slot, occupants[c][p]))
        ELSE w.sent[p]]]

\* the packet update() builds
ContentPacket(w, c, id) ==
  [kind |-> "content", containerId |-> id, slot |-> 0,
   items |-> [k \in 1..size[c] |->
                IF Read(w, c, k - 1) # Null THEN ToNetworkStack(w.items[Read(w, c, k - 1)])
                                            ELSE EmptyDescriptor],
   type |-> ContainerType(c), serverInitiated |-> FALSE]

\* update(): the full content to every occupant
UpdateOp(w, c) ==
  [w EXCEPT !.sent = [p \in Players |->
      IF occupants[c][p] # NoEntry
        THEN Append(w.sent[p], ContentPacket(w, c, occupants[c][p]))
        ELSE w.sent[p]]]

HasOccupants(c) == \E p \in Players : occupants[c][p] # NoEntry

\* clearSlot(slot)
ClearSlotOp(w, c, slot) ==
  LET s == JsMod(slot, size[c])
      w1 == [w EXCEPT !.storage[c][s] = Null]
  IN IF ~HasOccupants(c) THEN w1 ELSE UpdateSlotOp(w1, c, s)

\* clear()
ClearOp(w, c) ==
  LET w1 == [w EXCEPT !.storage[c] =
               [i \in IdxDom |-> IF i \in Slots(c) THEN Null ELSE Undefined]]
  IN IF ~HasOccupants(c) THEN w1 ELSE UpdateOp(w1, c)

\* setItem(slot, item)
SetItemOp(w, c, slot, it) ==
  LET s == JsMod(slot, size[c])
      w1 == [w EXCEPT !.storage[c][s] = it]
      w2 == IF w1.items[it].stackSize = 0 \/ w1.items[it].type = "Air"
              THEN ClearSlotOp(w1, c, s) ELSE w1
      w3 == [w2 EXCEPT !.items[it].container = c]
  IN UpdateSlotOp(w3, c, s)

\* this.storage.indexOf(null)
IndexOfNull(w, c) ==
  LET empty == {i \in Slots(c) : w.storage[c][i] = Null}
  IN IF empty = {} THEN -1 ELSE CHOOSE i \in empty : \A j \in empty : i <= j

\* the findIndex predicate of addItem: a non-full stack of the same item type
Mergeable(w, c, i, it) ==
  /\ IsRef(w.storage[c][i])
  /\ LET st == w.items[w.storage[c][i]]
     IN /\ st.stackSize < MaxStackSize(st.type)
        /\ Equals(w.items[it], st)

\* this.storage.findIndex(...) of addItem
FindExistingMutantNever(w, c, it) == -1
FindExisting(w, c, it) ==
  LET found == {i \in Slots(c) : Mergeable(w, c, i, it)}
  IN IF found = {} THEN -1 ELSE CHOOSE i \in found : \A j \in found : i <= j

(***************************************************************************)
(* Heap housekeeping: objects nothing refers to any more are released       *)
(***************************************************************************)
FreeIds(w) == {i \in ItemIds : w.items[i].type = "free"}
FreeTraits(w) == {t \in TraitIds : w.traitKind[t] = "free"}
FreshId(w) == CHOOSE i \in FreeIds(w) : \A j \in FreeIds(w) : i <= j
FreshTrait(w) == CHOOSE t \in FreeTraits(w) : \A u \in FreeTraits(w) : t <= u

StorageRefs(st) == {st[c][i] : c \in Containers, i \in IdxDom} \cap ItemIds

Collect(w, roots) ==
  LET live == (StorageRefs(w.storage) \cup roots) \cap ItemIds
      its == [i \in ItemIds |-> IF i \in live THEN w.items[i] ELSE FreeItem]
      used == UNION {its[i].traits : i \in ItemIds}
  IN [w EXCEPT !.items = its,
               !.traitKind = [t \in TraitIds |->
                                IF t \in used THEN w.traitKind[t] ELSE "free"]]

\* Objects have no address: the live ones are renumbered in the order in which
\* the storage positions, the caller and the call record refer to them, and
\* the traits in the order of their owners.
Span == 2 * MaxSize - 1
Traversal(w, h, k) ==
  [n \in 1..(2 * Span + 4) |->
     IF n <= Span THEN w.storage["c1"][n - MaxSize]
     ELSE IF n <= 2 * Span THEN w.storage["c2"][n - Span - MaxSize]
     ELSE IF n = 2 * Span + 1 THEN h
     ELSE IF n = 2 * Span + 2 THEN k.item
     ELSE IF n = 2 * Span + 3 THEN k.src
     ELSE k.ret]

KindRank(kind) == IF kind = "k1" THEN 1 ELSE 2

\* first position of every live object in the traversal
FirstSeen(trav, live) ==
  [x \in live |-> CHOOSE n \in DOMAIN trav :
                    trav[n] = x /\ \A m \in 1..(n - 1) : trav[m] # x]

\* the first (renumbered) owner of every live trait
FirstOwner(its, oldId, liveT) ==
  [t \in liveT |-> CHOOSE i \in DOMAIN oldId :
                     /\ t \in its[oldId[i]].traits
                     /\ \A j \in 1..(i - 1) : t \notin its[oldId[j]].traits]

\* a handler returns: world w, the caller now holding h, the call record k
ReturnHeap(w, h, k) ==
  \E g \in {Collect(w, {h, k.item, k.src, k.ret})} :
  \E trav \in {Traversal(g, h, k)} :
  \E live \in {{trav[n] : n \in DOMAIN trav} \cap ItemIds} :
  \E first \in {FirstSeen(trav, live)} :
  \E newId \in {[x \in live |-> Cardinality({y \in live : first[y] < first[x]}) + 1]} :
  \E oldId \in {[i \in 1..Cardinality(live) |-> CHOOSE x \in live : newId[x] = i]} :
  \E liveT \in {UNION {g.items[x].traits : x \in live}} :
  \E owner \in {FirstOwner(g.items, oldId, liveT)} :
  \E key \in {[t \in liveT |-> 2 * owner[t] + KindRank(g.traitKind[t])]} :
  \E newTrait \in {[t \in liveT |-> Cardinality({u \in liveT : key[u] < key[t]}) + 1]} :
  \E oldTrait \in {[j \in 1..Cardinality(liveT) |-> CHOOSE t \in liveT : newTrait[t] = j]} :
     /\ items' = [i \in ItemIds |->
                    IF i <= Cardinality(live)
                      THEN [g.items[oldId[i]] EXCEPT !.traits = {newTrait[t] : t \in @}]
                      ELSE FreeItem]
     /\ traitKind' = [j \in TraitIds |->
                        IF j <= Cardinality(liveT) THEN g.traitKind[oldTrait[j]]
                                                   ELSE "free"]
     /\ storage' = [c \in Containers |-> [i \in IdxDom |->
                      IF g.storage[c][i] \in live THEN newId[g.storage[c][i]]
                                                  ELSE g.storage[c][i]]]
     /\ sent' = g.sent
     /\ held' = IF h \in live THEN newId[h] ELSE h
     /\ call' = [k EXCEPT !.item = IF @ \in live THEN newId[@] ELSE @,
                          !.src = IF @ \in live THEN newId[@] ELSE @,
                          !.ret = IF @ \in live THEN newId[@] ELSE @]

\* an item handler returns: it leaves the capacity and the occupancy alone
Return(w, h, k) ==
  /\ ReturnHeap(w, h, k)
  /\ UNCHANGED <<size, occupants, openedContainer, identifier,
                 nextContainerId, lastId>>

(***************************************************************************)
(* Callers of the slot store                                                *)
(***************************************************************************)
Injective(f) == \A a, b \in DOMAIN f : a # b => f[a] # f[b]

\* the caller constructs an item stack of type t and size n, with the dynamic
\* properties ps and one trait of each kind in ks, and holds it
CreateItem(t, n, ps, ks) ==
  /\ Idle
  /\ LET w0 == Collect(World, {})
     IN /\ FreeIds(w0) # {}
        /\ Cardinality(FreeTraits(w0)) >= Cardinality(ks)
        /\ LET it == FreshId(w0)
               f == CHOOSE f \in [ks -> FreeTraits(w0)] : Injective(f)
               w1 == [w0 EXCEPT
                        !.items[it] = [NewItemStack(t, n) EXCEPT
                                         !.props = ps,
                                         !.traits = {f[k] : k \in ks}],
                        !.traitKind = [x \in TraitIds |->
                                         IF \E k \in ks : f[k] = x
                                           THEN CHOOSE k \in ks : f[k] = x
                                           ELSE w0.traitKind[x]]]
           IN Return(w1, it, [NoCall EXCEPT !.op = "create", !.ret = it])

\* getItem(slot): the caller keeps the reference it returns
GetItem(c, slot) ==
  /\ Idle
  /\ LET r == GetItemOp(World, c, slot)
     IN Return(World, r, [NoCall EXCEPT !.op = "getItem", !.c = c, !.idx = JsMod(slot, size[c]),
                                        !.ret = r])

\* setItem(slot, item) with the item the caller holds
SetItem(c, slot) ==
  /\ Idle
  /\ held # Null
  /\ Return(SetItemOp(World, c, slot, held), held,
            [NoCall EXCEPT !.op = "setItem", !.c = c, !.idx = JsMod(slot, size[c]), !.item = held,
                           !.itemBefore = items[held].stackSize])

\* clearSlot(slot)
ClearSlot(c, slot) ==
  /\ Idle
  /\ Return(ClearSlotOp(World, c, slot), held,
            [NoCall EXCEPT !.op = "clearSlot", !.c = c, !.idx = JsMod(slot, size[c])])

\* clear()
Clear(c) ==
  /\ Idle
  /\ Return(ClearOp(World, c), held,
            [NoCall EXCEPT !.op = "clear", !.c = c])

\* set size(value), for value >= 0: the storage array it builds
SetSizeOpMutantNoPrefix(w, c, value) ==
  [w EXCEPT !.storage[c] =
     [i \in IdxDom |-> IF 0 <= i /\ i < value THEN Null ELSE Undefined]]
SetSizeOp(w, c, value) ==
  LET existingItems == [i \in IdxDom |->
                          IF 0 <= i /\ i < value /\ i < size[c]
                            THEN w.storage[c][i] ELSE Undefined]
  IN [w EXCEPT !.storage[c] =
        [i \in IdxDom |->
           IF 0 <= i /\ i < value
             THEN (IF IsRef(existingItems[i]) THEN existingItems[i] ELSE Null)
             ELSE Undefined]]

\* container.size = value: throws on a negative value
SetSize(c, value) ==
  /\ Idle
  /\ LET k == [NoCall EXCEPT !.op = "setSize", !.c = c, !.amount = value,
                             !.srcSize = size[c],
                             !.sumBefore = Cardinality({i \in Slots(c) :
                                                         IsRef(storage[c][i])})]
     IN IF value < 0
          THEN /\ ReturnHeap(World, held, [k EXCEPT !.err = TRUE])
               /\ UNCHANGED size
          ELSE /\ ReturnHeap(SetSizeOp(World, c, value), held, k)
               /\ size' = [size EXCEPT ![c] = value]
  /\ UNCHANGED <<occupants, openedContainer, identifier, nextContainerId, lastId>>

\* removeItem(slot, amount): the stack is decremented in place and returned
RemoveItemOp(w, c, slot, amount) ==
  LET s == JsMod(slot, size[c])
      it == GetItemOp(w, c, s)
  IN IF it = Null THEN [w |-> w, ret |-> Null]
     ELSE LET removed == Min(amount, w.items[it].stackSize)
              w1 == [w EXCEPT !.items[it] = DecrementStack(@, removed)]
              w2 == IF w1.items[it].stackSize = 0
                      THEN [w1 EXCEPT !.storage[c][s] = Null] ELSE w1
          IN [w |-> w2, ret |-> it]

RemoveItem(c, slot, amount) ==
  /\ Idle
  /\ LET r == RemoveItemOp(World, c, slot, amount)
         src == GetItemOp(World, c, slot)
     IN Return(r.w, r.ret,
               [NoCall EXCEPT !.op = "removeItem", !.c = c, !.idx = JsMod(slot, size[c]), !.amount = amount,
                              !.ret = r.ret, !.src = src,
                              !.srcSize = IF src = Null THEN 0
                                          ELSE items[src].stackSize])

\* takeItem: the amount of items to remove on a split
TakeRemovedMutantNoMin(amount, stackSize) == amount
TakeRemoved(amount, stackSize) == Min(amount, stackSize)

\* takeItem: newItem.addTrait(trait.clone(newItem)) for every trait of the
\* item: g maps each trait of the source to the fresh trait object cloned from it
CloneTraitsMutantShare(w, it, new, g) ==
  [w EXCEPT !.items[new].traits = w.items[it].traits]
CloneTraits(w, it, new, g) ==
  [w EXCEPT !.items[new].traits = {g[t] : t \in w.items[it].traits},
            !.traitKind = [x \in TraitIds |->
                             IF \E t \in w.items[it].traits : g[t] = x
                               THEN w.traitKind[CHOOSE t \in w.items[it].traits : g[t] = x]
                               ELSE w.traitKind[x]]]

\* takeItem: the dynamic properties of the item set on the new item
CopyProps(w, it, new) == [w EXCEPT !.items[new].props = w.items[it].props]

\* takeItem(slot, amount)
TakeItemOp(w, c, slot, amount) ==
  LET s == JsMod(slot, size[c])
      it == GetItemOp(w, c, s)
  IN IF it = Null THEN [w |-> w, ret |-> Null]
     ELSE IF amount = w.items[it].stackSize
       THEN [w |-> ClearSlotOp(w, c, s), ret |-> it]
       ELSE LET removed == TakeRemoved(amount, w.items[it].stackSize)
                w1 == [w EXCEPT !.items[it] = DecrementStack(@, removed)]
                w2 == IF w1.items[it].stackSize = 0 THEN ClearSlotOp(w1, c, s) ELSE w1
                new == FreshId(w2)
                w3 == [w2 EXCEPT !.items[new] = NewItemStack(w2.items[it].type, removed)]
                w4 == CopyProps(w3, it, new)
                g == CHOOSE g \in [w4.items[it].traits -> FreeTraits(w4)] : Injective(g)
                w5 == CloneTraits(w4, it, new, g)
                w6 == UpdateSlotOp(w5, c, s)
            IN [w |-> w6, ret |-> new]

TakeItem(c, slot, amount) ==
  /\ Idle
  /\ LET w0 == Collect(World, {held})
         src == GetItemOp(w0, c, slot)
     IN /\ (src # Null /\ amount # items[src].stackSize) =>
              /\ FreeIds(w0) # {}
              /\ Cardinality(FreeTraits(w0)) >= Cardinality(items[src].traits)
        /\ LET r == TakeItemOp(w0, c, slot, amount)
           IN Return(r.w, r.ret,
                     [NoCall EXCEPT !.op = "takeItem", !.c = c, !.idx = JsMod(slot, size[c]), !.amount = amount,
                                    !.ret = r.ret, !.src = src,
                                    !.srcSize = IF src = Null THEN 0
                                                ELSE items[src].stackSize])

\* swapItems(slot, otherSlot, otherContainer); oc = NoContainer: not given
SwapItemsOp(w, c, slot, otherSlot, oc) ==
  LET targetContainer == IF oc = NoContainer THEN c ELSE oc
      s == JsMod(slot, size[c])
      o == JsMod(otherSlot, size[targetContainer])
      item == GetItemOp(w, c, s)
      otherItem == GetItemOp(w, targetContainer, o)
      w1 == ClearSlotOp(w, c, s)
      w2 == ClearSlotOp(w1, targetContainer, o)
      w3 == IF item # Null THEN SetItemOp(w2, targetContainer, o, item) ELSE w2
  IN IF otherItem # Null THEN SetItemOp(w3, c, s, otherItem) ELSE w3

SwapItems(c, slot, otherSlot, oc) ==
  /\ Idle
  /\ Return(SwapItemsOp(World, c, slot, otherSlot, oc), held,
            [NoCall EXCEPT !.op = "swapItems", !.c = c, !.idx = JsMod(slot, size[c]),
                           !.other = JsMod(otherSlot,
                                           size[IF oc = NoContainer THEN c ELSE oc]),
                           !.oc = oc])

(***************************************************************************)
(* Stack merger: addItem(item) with the item the caller holds.  The while   *)
(* loop is one step per iteration; no other call runs until it returns.     *)
(***************************************************************************)
SlotSum(st, its, c) ==
  LET RECURSIVE Sum(_)
      Sum(n) == IF n = 0 THEN 0
                ELSE Sum(n - 1) + (IF IsRef(st[c][n - 1]) THEN its[st[c][n - 1]].stackSize
                                                         ELSE 0)
  IN Sum(size[c])

EmptyCount(w, c) == Cardinality({i \in Slots(c) : w.storage[c][i] = Null})

\* addItem, the branch of a non-stackable item
AddNonStackableOp(w, c, it) ==
  LET emptySlot == IndexOfNull(w, c)
  IN IF emptySlot > -1
       THEN [w |-> [SetItemOp(w, c, emptySlot, it) EXCEPT !.items[it].stackSize = 0],
             ok |-> TRUE]
       ELSE [w |-> w, ok |-> FALSE]

\* addItem, the merge of one loop iteration into the stack found at slot e
AddMergeOp(w, c, it, e) ==
  LET existingItem == w.storage[c][e]
      amountToAdd == Min(MaxStackSize(w.items[existingItem].type)
                           - w.items[existingItem].stackSize,
                         w.items[it].stackSize)
      w1 == [w EXCEPT !.items[existingItem] = IncrementStack(@, amountToAdd)]
  IN [w1 EXCEPT !.items[it] = DecrementStack(@, amountToAdd)]

\* addItem, the placement of one loop iteration into the empty slot n
AddPlaceOp(w, c, it, n) ==
  LET amountToSet == Min(MaxStackSize(w.items[it].type), w.items[it].stackSize)
      newItem == FreshId(w)
      w1 == [w EXCEPT !.items[newItem] = NewItemStack(w.items[it].type, amountToSet)]
      w2 == SetItemOp(w1, c, n, newItem)
  IN [w2 EXCEPT !.items[it] = DecrementStack(@, amountToSet)]

\* addItem's result: return item.stackSize === 0
AddResultMutantTrue(w, it) == TRUE
AddResult(w, it) == w.items[it].stackSize = 0

AddItemStart(c) ==
  /\ Idle
  /\ held # Null
  /\ LET w0 == Collect(World, {held})
         k == [NoCall EXCEPT !.op = "addItem", !.c = c, !.item = held,
                             !.itemBefore = items[held].stackSize,
                             !.sumBefore = SlotSum(storage, items, c),
                             !.absorbing = {i \in Slots(c) :
                                              \/ storage[c][i] = Null
                                              \/ Mergeable(World, c, i, held)}]
     IN /\ Cardinality(FreeIds(w0)) >= EmptyCount(w0, c)
        /\ IF ~IsStackable(items[held].type)
             THEN LET r == AddNonStackableOp(w0, c, held)
                  IN Return(r.w, held, [k EXCEPT !.ok = r.ok])
             ELSE Return(w0, held, [k EXCEPT !.pc = "loop"])

AddItemLoop ==
  /\ call.pc = "loop"
  /\ LET c == call.c
         it == call.item
         w == [World EXCEPT !.sent = sent]
         existingSlotIndex == FindExisting(w, c, it)
         emptySlotIndex == IndexOfNull(w, c)
         done == [call EXCEPT !.pc = "idle", !.ok = AddResult(w, it)]
     IN IF items[it].stackSize > 0
          THEN IF existingSlotIndex > -1
                 THEN Return(AddMergeOp(w, c, it, existingSlotIndex), held, call)
                 ELSE IF emptySlotIndex > -1
                   THEN Return(AddPlaceOp(w, c, it, emptySlotIndex), held, call)
                   ELSE Return(w, held, done)
          ELSE Return(w, held, done)

(***************************************************************************)
(* Initial state: two constructed containers, nobody viewing                *)
(***************************************************************************)
Init ==
  /\ items = InitItems
  /\ traitKind = InitTraitKind
  /\ size = InitSize
  /\ storage = InitStorage
  /\ occupants = [c \in Containers |-> [p \in Players |-> NoEntry]]
  /\ openedContainer = [p \in Players |-> NoContainer]
  /\ identifier = [c \in Containers |-> NoOverride]
  /\ nextContainerId = ContainerIdFirst
  /\ held = Null
  /\ sent = NoPackets
  /\ lastId = 0
  /\ call = NoCall

(***************************************************************************)
(* Occupancy specification: show, close, the allocator, the override        *)
(***************************************************************************)
NextOcc ==
  \/ \E c \in Containers, p \in Players : Show(c, p)
  \/ \E c \in Containers, p \in Players, b \in BOOLEAN : Close(c, p, b)
  \/ NextContainerId
  \/ \E c \in Containers : SetIdentifier(c, ContainerIdInventory)

SpecOcc == Init /\ [][NextOcc]_vars

(***************************************************************************)
(* Inputs the callers draw from                                             *)
(***************************************************************************)
SlotInputs == (0 - 1)..MaxSize       \* negative, in range, and >= capacity
InRange == 0..(MaxSize - 1)
Amounts == 0..MaxAmount
Sizes(t) == IF IsStackable(t) THEN 1..MaxAmount ELSE {1}

(***************************************************************************)
(* Show specification: show in two steps, and close                         *)
(***************************************************************************)
NextShow ==
  \/ \E c \in Containers, p \in Players : ShowBegin(c, p)
  \/ ShowEnd
  \/ \E c \in Containers, p \in Players, b \in BOOLEAN : Close(c, p, b)

SpecShow == Init /\ [][NextShow]_vars

(***************************************************************************)
(* Resize specification: stacks are set into container c1 while it has a    *)
(* slot, and its size is assigned, negative values included                 *)
(***************************************************************************)
NewSizes == (0 - 1)..MaxSize

NextSize ==
  \/ \E n \in 1..MaxAmount : CreateItem("A", n, {}, {})
  \/ \E slot \in InRange : size["c1"] > 0 /\ SetItem("c1", slot)
  \/ \E value \in NewSizes : SetSize("c1", value)

SpecSize == Init /\ [][NextSize]_vars

(***************************************************************************)
(* Synchronisation specification: up to MaxShows show calls put viewers on  *)
(* either container, and the item operations run on container c1, clearSlot *)
(* with a negative index too                                                *)
(***************************************************************************)
NextSync ==
  \/ \E c \in Containers, p \in Players : nextContainerId <= MaxShows /\ Show(c, p)
  \/ CreateItem("A", MaxAmount - 1, {}, {})
  \/ \E slot \in InRange : SetItem("c1", slot)
  \/ \E slot \in SlotInputs : ClearSlot("c1", slot)
  \/ Clear("c1")
  \/ \E slot \in InRange : RemoveItem("c1", slot, 1)
  \/ \E slot \in InRange, a \in {1, MaxAmount} : TakeItem("c1", slot, a)
  \/ AddItemStart("c1")
  \/ AddItemLoop

SpecSync == Init /\ [][NextSync]_vars

(***************************************************************************)
(* Silence specification: up to MaxShows show calls put viewers on either   *)
(* container, and the item operations run on the one-slot container c2      *)
(***************************************************************************)
NextSilence ==
  \/ \E c \in Containers, p \in Players : nextContainerId <= MaxShows /\ Show(c, p)
  \/ \E n \in 1..MaxAmount : CreateItem("A", n, {}, {})
  \/ CreateItem("T", 1, {}, {})
  \/ \E slot \in SlotInputs : SetItem("c2", slot)
  \/ \E slot \in SlotInputs : ClearSlot("c2", slot)
  \/ Clear("c2")
  \/ \E a \in 1..MaxAmount : RemoveItem("c2", 0, a)
  \/ \E a \in 1..MaxAmount : TakeItem("c2", 0, a)
  \/ AddItemStart("c2")
  \/ AddItemLoop

SpecSilence == Init /\ [][NextSilence]_vars

(***************************************************************************)
(* Stack merger specification: addItem on container c1, which nobody views; *)
(* the caller may pass a new stack or one it got from the container.        *)
(***************************************************************************)
NextAdd ==
  \/ \E t \in Types, n \in 1..MaxAmount : n \in Sizes(t) /\ CreateItem(t, n, {}, {})
  \/ \E slot \in InRange : GetItem("c1", slot)
  \/ \E slot \in InRange, a \in 1..MaxAmount : RemoveItem("c1", slot, a)
  \/ AddItemStart("c1")
  \/ AddItemLoop

SpecAdd == Init /\ [][NextAdd]_vars

(***************************************************************************)
(* Index specification: every operation that takes a slot index, with       *)
(* indices that are negative, in range, and >= capacity, on container c1    *)
(***************************************************************************)
NextIndex ==
  \/ \E n \in 1..MaxAmount : CreateItem("A", n, {}, {})
  \/ \E slot \in SlotInputs : GetItem("c1", slot)
  \/ \E slot \in SlotInputs : SetItem("c1", slot)
  \/ \E slot \in SlotInputs : ClearSlot("c1", slot)
  \/ \E slot \in SlotInputs, a \in Amounts : RemoveItem("c1", slot, a)
  \/ \E slot \in SlotInputs, a \in Amounts : TakeItem("c1", slot, a)

SpecIndex == Init /\ [][NextIndex]_vars

(***************************************************************************)
(* Take specification: full stacks that carry a dynamic property and two    *)
(* traits are set into container c1, non-stackable items are set or added,  *)
(* and stacks are taken from it, whole or split                             *)
(***************************************************************************)
NextTake ==
  \/ CreateItem("A", MaxAmount, {<<"key", 1>>}, TraitKinds)
  \/ CreateItem("T", 1, {}, {})
  \/ \E slot \in InRange : SetItem("c1", slot)
  \/ held # Null /\ ~IsStackable(items[held].type) /\ AddItemStart("c1")
  \/ \E slot \in InRange, a \in Amounts : TakeItem("c1", slot, a)

SpecTake == Init /\ [][NextTake]_vars

(***************************************************************************)
(* Swap specification: non-stackable items are set or added into the        *)
(* containers and swapped within one container or across the two            *)
(***************************************************************************)
NextSwap ==
  \/ CreateItem("T", 1, {}, {})
  \/ \E c \in Containers, slot \in InRange : SetItem(c, slot)
  \/ \E c \in Containers : AddItemStart(c)
  \/ \E c \in Containers, slot \in InRange, other \in 0..MaxSize,
        oc \in Containers \cup {NoContainer} : SwapItems(c, slot, other, oc)

SpecSwap == Init /\ [][NextSwap]_vars

(***************************************************************************)
(* Claims on the occupancy tracker and the allocator (under SpecOcc)        *)
(***************************************************************************)
ViewedBy(p) == {c \in Containers : occupants[c][p] # NoEntry}

\* C2: after any sequence of show and close calls (failed closes included)
\* every viewer is in the occupants map of at most one container, its
\* openedContainer is exactly that container (null iff it is in none), and
\* after a show the viewer has exactly one open container, the one shown.
C2_SingleOpenContainer ==
  \A p \in Players :
    /\ Cardinality(ViewedBy(p)) <= 1
    /\ (openedContainer[p] = NoContainer) <=> (ViewedBy(p) = {})
    /\ openedContainer[p] # NoContainer => ViewedBy(p) = {openedContainer[p]}
    /\ (call.op = "show" /\ call.p = p) =>
          (~call.err /\ ViewedBy(p) = {call.c})

\* C2 witness: a show that had to close a different, previously open container
C2_Witness ==
  /\ call.op = "show"
  /\ call.oc \notin {NoContainer, call.c}
  /\ openedContainer[call.p] = call.c
  /\ \E q \in Players : q # call.p /\ openedContainer[q] # NoContainer

AllocatorStep == nextContainerId' # nextContainerId

\* C3: every identifier the allocator returns lies in [First, Last], and the
\* call made after Last was returned yields First.
C3_IdentifierBound ==
  /\ [](lastId # 0 => (ContainerIdFirst <= lastId /\ lastId <= ContainerIdLast))
  /\ [][(AllocatorStep /\ lastId = ContainerIdLast) => lastId' = ContainerIdFirst]_vars

\* C3 witness: the allocator has just wrapped from Last to First
C3_Witness ==
  /\ call.op \in {"show", "getNextContainerId"}
  /\ lastId = ContainerIdFirst
  /\ nextContainerId = ContainerIdFirst

\* C4: successive calls return First, First+1, ..., Last, First, ...: each
\* returned identifier is the previous one plus one, Last being followed by First.
C4_AllocatorCyclic ==
  [][AllocatorStep =>
       lastId' = IF lastId \in {0, ContainerIdLast} THEN ContainerIdFirst
                                                     ELSE lastId + 1]_vars

\* C5: with a fixed identifier override configured, show returns the override
\* and records it against the viewer in occupants.
C5_ShowUsesOverride ==
  (call.op = "show" /\ ~call.err /\ identifier[call.c] # NoOverride) =>
     /\ call.id = identifier[call.c]
     /\ occupants[call.c][call.p] = identifier[call.c]

(***************************************************************************)
(* Claims on the stack merger (under SpecAdd)                               *)
(***************************************************************************)
AddReturned == call.op = "addItem" /\ call.pc = "idle"

\* C1: quantity conservation: for every addItem call the item's stack size
\* before the call equals the total increase of the stack sizes held in the
\* container's slots plus the item's stack size after the call.
C1_QuantityConservation ==
  AddReturned =>
    call.itemBefore = (SlotSum(storage, items, call.c) - call.sumBefore)
                        + items[call.item].stackSize

LowestMergeable(c, it) ==
  CHOOSE j \in Slots(c) : /\ Mergeable(World, c, j, it)
                          /\ \A k \in Slots(c) : Mergeable(World, c, k, it) => j <= k

\* C10: in every iteration of addItem's loop for a stackable item, (a) a slot
\* that was empty and becomes occupied does so only when no occupied slot holds
\* a compatible stack with free space, it is the lowest-index empty slot, and
\* it receives min(max stack size, remaining) units, which leave the caller's
\* stack; (b) a stored stack that grows is the one in the lowest-index slot
\* holding a compatible, not-yet-full stack, and it grows by
\* min(free space, remaining).
C10_MergeBeforePlace ==
  [][(call.pc = "loop" /\ call'.op = "addItem") =>
       LET c == call.c
           it == call.item
           remaining == items[it].stackSize
           left == items'[call'.item].stackSize
       IN /\ \A i \in Slots(c) :
               (storage[c][i] = Null /\ storage'[c][i] # Null) =>
                  /\ ~\E j \in Slots(c) : Mergeable(World, c, j, it)
                  /\ \A j \in Slots(c) : storage[c][j] = Null => i <= j
                  /\ items'[storage'[c][i]].type = items[it].type
                  /\ items'[storage'[c][i]].stackSize
                       = Min(MaxStackSize(items[it].type), remaining)
                  /\ left = remaining - Min(MaxStackSize(items[it].type), remaining)
          /\ \A i \in Slots(c) :
               (/\ IsRef(storage[c][i]) /\ IsRef(storage'[c][i])
                /\ items'[storage'[c][i]].stackSize > items[storage[c][i]].stackSize) =>
                  LET x == storage[c][i]
                      free == MaxStackSize(items[x].type) - items[x].stackSize
                  IN /\ x = storage[c][LowestMergeable(c, it)]
                     /\ \A j \in Slots(c) : IsRef(storage'[c][j]) <=> IsRef(storage[c][j])
                     /\ items'[storage'[c][i]].stackSize
                          = items[x].stackSize + Min(free, remaining)
                     /\ left = remaining - Min(free, remaining)
     ]_vars

\* C10 witness: a partial stack of 2 (max 3) in slot 0 and an empty slot 1;
\* adding 3 has filled slot 0 to 3 and placed the remainder 2 in slot 1
C10_Witness ==
  /\ AddReturned /\ call.ok
  /\ call.sumBefore = 2 /\ call.itemBefore = 3
  /\ IsRef(storage["c1"][0]) /\ IsRef(storage["c1"][1])
  /\ items[storage["c1"][0]].type = "A" /\ items[storage["c1"][0]].stackSize = 3
  /\ items[storage["c1"][1]].type = "A" /\ items[storage["c1"][1]].stackSize = 2
  /\ items[call.item].stackSize = 0

(***************************************************************************)
(* Claims on the indexed operations (under SpecIndex)                       *)
(***************************************************************************)
IndexOps == {"getItem", "setItem", "removeItem", "takeItem", "clearSlot"}

\* C6: for every integer slot index, getItem, setItem, removeItem, takeItem
\* and clearSlot resolve the index to a position in [0, capacity), never raise
\* an error, and leave every other storage position as it was (empty or not).
C6_IndexInRange ==
  /\ [](call.op \in IndexOps => (call.idx \in Slots(call.c) /\ ~call.err))
  /\ [][call'.op \in IndexOps =>
          \A j \in IdxDom \ {call'.idx} :
             /\ IsRef(storage'[call'.c][j]) <=> IsRef(storage[call'.c][j])
             /\ storage'[call'.c][j] = Undefined <=> storage[call'.c][j] = Undefined]_vars

(***************************************************************************)
(* Claims on takeItem (under SpecTake)                                      *)
(***************************************************************************)
KindsOf(its, kinds, x) == {kinds[t] : t \in its[x].traits}

\* C7: takeItem(slot, amount) with amount >= 0: on an empty slot it returns
\* null and changes nothing; otherwise it returns a stack of size
\* min(amount, original size) and the slot afterwards holds
\* original size - min(amount, original size) units, being empty when that is 0.
C7_TakeSplit ==
  [][call'.op = "takeItem" =>
       LET c == call'.c
           s == call'.idx
           src == Read(World, c, s)
       IN IF src = Null
            THEN /\ call'.ret = Null
                 /\ storage' = storage
                 /\ \A j \in Slots(c) :
                      IsRef(storage[c][j]) => items'[storage'[c][j]] = items[storage[c][j]]
            ELSE LET orig == items[src].stackSize
                     m == Min(call'.amount, orig)
                     left == Read(World', c, s)
                 IN /\ call'.ret # Null
                    /\ items'[call'.ret].stackSize = m
                    /\ IF orig - m = 0 THEN left = Null
                       ELSE left # Null /\ items'[left].stackSize = orig - m
     ]_vars

\* C7 witness: a split that left a remainder in the slot
C7_Witness ==
  /\ call.op = "takeItem"
  /\ call.src # Null /\ 0 < call.amount /\ call.amount < call.srcSize
  /\ call.ret # Null /\ items[call.ret].stackSize = call.amount
  /\ Read(World, call.c, call.idx) = call.src
  /\ items[call.src].stackSize = call.srcSize - call.amount

\* C8: when amount differs from the slot's quantity, takeItem returns a new
\* instance, distinct from every stored stack, of the source's type, carrying
\* every dynamic property of the source and a clone (never the same instance)
\* of every trait of the source, the source keeping its own properties and
\* traits; when amount equals the quantity it returns the original instance
\* unmodified and the slot is cleared.
C8_TakeClone ==
  [][(call'.op = "takeItem" /\ Read(World, call'.c, call'.idx) # Null) =>
       LET c == call'.c
           s == call'.idx
           src == Read(World, c, s)
           srcAfter == call'.src
           ret == call'.ret
           others == (StorageRefs(storage') \cup {srcAfter}) \ {ret}
       IN IF call'.amount # items[src].stackSize
            THEN /\ ret \in ItemIds /\ ret # srcAfter
                 /\ ret \notin StorageRefs(storage')
                 /\ items'[ret].type = items[src].type
                 /\ items'[ret].props = items[src].props
                 /\ KindsOf(items', traitKind', ret) = KindsOf(items, traitKind, src)
                 /\ Cardinality(items'[ret].traits) = Cardinality(items[src].traits)
                 /\ \A x \in others : items'[x].traits \cap items'[ret].traits = {}
                 /\ items'[srcAfter].type = items[src].type
                 /\ items'[srcAfter].props = items[src].props
                 /\ KindsOf(items', traitKind', srcAfter) = KindsOf(items, traitKind, src)
                 /\ Cardinality(items'[srcAfter].traits) = Cardinality(items[src].traits)
            ELSE /\ ret = srcAfter
                 /\ items'[ret].type = items[src].type
                 /\ items'[ret].stackSize = items[src].stackSize
                 /\ items'[ret].props = items[src].props
                 /\ items'[ret].container = items[src].container
                 /\ KindsOf(items', traitKind', ret) = KindsOf(items, traitKind, src)
                 /\ Cardinality(items'[ret].traits) = Cardinality(items[src].traits)
                 /\ Read(World', c, s) = Null
     ]_vars

\* C8 witness: a split of a stack that carries a property and two traits
C8_Witness ==
  /\ call.op = "takeItem"
  /\ call.src # Null /\ 0 < call.amount /\ call.amount < call.srcSize
  /\ call.ret \in ItemIds /\ call.ret # call.src
  /\ items[call.ret].props # {} /\ Cardinality(items[call.ret].traits) = 2
  /\ Cardinality(items[call.src].traits) = 2
  /\ Read(World, call.c, call.idx) = call.src

(***************************************************************************)
(* Claims on swapItems (under SpecSwap)                                     *)
(***************************************************************************)
SwapTwice(w, c, slot, otherSlot, oc) ==
  SwapItemsOp(SwapItemsOp(w, c, slot, otherSlot, oc), c, slot, otherSlot, oc)

\* C9: swap involution: from the state in which swapItems(slot, otherSlot,
\* otherContainer) is called, calling it twice in a row leaves every slot of
\* every container holding the item instance (or emptiness) it held before.
C9_SwapInvolution ==
  [][call'.op = "swapItems" =>
       LET w2 == SwapTwice(World, call'.c, call'.idx, call'.other, call'.oc)
       IN \A c \in Containers : \A i \in Slots(c) : Read(w2, c, i) = Read(World, c, i)
     ]_vars


(***************************************************************************)
(* Further claims on the stack merger (under SpecAdd)                       *)
(***************************************************************************)
\* slot i of container c shows the same content before and after the step
SameSlot(c, i) ==
  /\ IsRef(storage'[c][i]) <=> IsRef(storage[c][i])
  /\ IsRef(storage[c][i]) =>
       /\ items'[storage'[c][i]].type = items[storage[c][i]].type
       /\ items'[storage'[c][i]].stackSize = items[storage[c][i]].stackSize

\* a step that is a whole addItem call of a non-stackable item
AddNonStackableStep ==
  /\ Idle /\ call'.op = "addItem"
  /\ held # Null /\ ~IsStackable(items[held].type)

\* C11: addItem of a non-stackable item: with an empty slot, exactly the
\* lowest-index empty slot changes and afterwards holds a non-empty stack of
\* the item's type, the caller's quantity is zero and the call returns true;
\* without one, no slot changes, the caller's quantity is unchanged and the
\* call returns false.
C11_NonStackableAdd ==
  [][AddNonStackableStep =>
       LET c == call'.c
           e == IndexOfNull(World, c)
       IN IF e > -1
            THEN /\ \A i \in Slots(c) \ {e} : SameSlot(c, i)
                 /\ IsRef(storage'[c][e])
                 /\ items'[storage'[c][e]].type = items[held].type
                 /\ items'[storage'[c][e]].stackSize >= 1
                 /\ items'[call'.item].stackSize = 0
                 /\ call'.ok
            ELSE /\ \A i \in Slots(c) : SameSlot(c, i)
                 /\ items'[call'.item].stackSize = items[held].stackSize
                 /\ ~call'.ok
     ]_vars

C13_AddFrame ==
  /\ [][call'.op = "addItem" =>
          \A i \in Slots(call'.c) : ~SameSlot(call'.c, i) => i \in call'.absorbing]_vars
  /\ [](( AddReturned /\ call.absorbing = {} /\ call.itemBefore >= 1) =>
          (~call.ok /\ items[call.item].stackSize = call.itemBefore))

\* C20: when no call is in progress, every occupied slot holds a stack whose
\* size is at least 1.
C20_NoZeroStored ==
  Idle => \A c \in Containers : \A i \in Slots(c) :
            IsRef(storage[c][i]) => items[storage[c][i]].stackSize >= 1


(***************************************************************************)
(* Further claims on the occupancy tracker                                  *)
(***************************************************************************)
\* C16 (under SpecShow): when show is called while the viewer has container X
\* open, the viewer is sent X's close notification with serverInitiated = true
\* and is removed from X's occupants before it is recorded in the new
\* container's occupants; at no point is the viewer registered in two
\* containers.
C16_CloseBeforeRegister ==
  /\ [](\A p \in Players : Cardinality(ViewedBy(p)) <= 1)
  /\ [][(Idle /\ call'.op = "show" /\ call'.pc = "register"
           /\ openedContainer[call'.p] # NoContainer) =>
          LET p == call'.p
              x == openedContainer[p]
          IN /\ Len(sent'[p]) = 1
             /\ sent'[p][1].kind = "close"
             /\ sent'[p][1].serverInitiated
             /\ sent'[p][1].containerId = occupants[x][p]
             /\ sent'[p][1].type = ContainerType(x)
             /\ occupants'[x][p] = NoEntry
             /\ \A c \in Containers : occupants'[c][p] = NoEntry]_vars
  /\ [][(call.pc = "register" /\ call'.pc = "idle") =>
          /\ ViewedBy(call.p) = {}
          /\ ViewedBy(call.p)' = {call.c}
          /\ sent' = sent]_vars

\* C16 witness: inside a show of another container, after the close of the
\* one that was open and before the viewer is recorded
C16_Witness ==
  /\ call.op = "show" /\ call.pc = "register"
  /\ call.oc \notin {NoContainer, call.c}
  /\ Len(sent[call.p]) = 1
  /\ occupants[call.oc][call.p] = NoEntry

\* C17 (under SpecOcc): close for a viewer without an entry fails and changes
\* nothing (no notification, occupants, openedContainer and storage
\* unchanged); with an entry it sends exactly one close notification carrying
\* the viewer's identifier, the container's type and the serverInitiated flag,
\* and removes the entry.
C17_CloseContract ==
  [][call'.op = "close" =>
       LET c == call'.c
           p == call'.p
       IN IF occupants[c][p] = NoEntry
            THEN /\ call'.err
                 /\ sent' = NoPackets
                 /\ occupants' = occupants
                 /\ openedContainer' = openedContainer
                 /\ storage' = storage /\ items' = items
            ELSE /\ ~call'.err
                 /\ \A q \in Players \ {p} : sent'[q] = << >>
                 /\ Len(sent'[p]) = 1
                 /\ sent'[p][1].kind = "close"
                 /\ sent'[p][1].containerId = occupants[c][p]
                 /\ sent'[p][1].type = ContainerType(c)
                 /\ sent'[p][1].serverInitiated = call'.flag
                 /\ occupants' = [occupants EXCEPT ![c][p] = NoEntry]
     ]_vars

\* C17 witness: a viewer-initiated close that removed the viewer's entry while
\* another viewer stays in the container
C17_Witness ==
  /\ call.op = "close" /\ ~call.err /\ ~call.flag
  /\ Len(sent[call.p]) = 1
  /\ occupants[call.c][call.p] = NoEntry
  /\ \E q \in Players : occupants[call.c][q] # NoEntry


(***************************************************************************)
(* Claims on the size setter (under SpecSize)                               *)
(***************************************************************************)
ArrayIndices == 0..(MaxSize - 1)

\* C18: assigning a negative size fails and leaves the storage unchanged; for
\* n >= 0 the storage afterwards has length exactly n, slots [0, min(old, n))
\* hold what they held, every slot at index >= old is empty, and what was at
\* indices >= n is discarded, not relocated; the storage length equals the
\* capacity at all times.
C18_Resize ==
  /\ [][call'.op = "setSize" =>
          LET c == call'.c
              n == call'.amount
              old == size[c]
          IN IF n < 0
               THEN /\ call'.err
                    /\ size' = size
                    /\ storage' = storage
                    /\ \A i \in ArrayIndices : SameSlot(c, i)
               ELSE /\ ~call'.err
                    /\ size'[c] = n
                    /\ \A i \in ArrayIndices :
                         /\ (i < n) <=> (storage'[c][i] # Undefined)
                         /\ (i < n /\ i < old) =>
                              /\ SameSlot(c, i)
                              /\ storage'[c][i] = storage[c][i]
                         /\ (i < n /\ i >= old) => storage'[c][i] = Null
                    /\ \A d \in Containers \ {c} : storage'[d] = storage[d]
       ]_vars
  /\ [](\A c \in Containers : \A i \in ArrayIndices :
          (i < size[c]) <=> (storage[c][i] # Undefined))

\* C18 witness: a container with every slot occupied shrunk by one slot: the
\* first slot still holds a stack, the last position is gone
C18_Witness ==
  /\ call.op = "setSize" /\ ~call.err
  /\ call.srcSize = MaxSize /\ call.sumBefore = MaxSize
  /\ call.amount = MaxSize - 1
  /\ size[call.c] = MaxSize - 1
  /\ IsRef(storage[call.c][0])
  /\ storage[call.c][MaxSize - 1] = Undefined


(***************************************************************************)
(* Claims on the notifications (under SpecSync)                             *)
(***************************************************************************)
Viewers(c) == {p \in Players : occupants[c][p] # NoEntry}

\* the descriptor of what position i of container c holds after the step
DescAfter(c, i) ==
  IF IsRef(storage'[c][i]) THEN [type |-> items'[storage'[c][i]].type,
                                 stackSize |-> items'[storage'[c][i]].stackSize]
                           ELSE EmptyDescriptor

\* C14: on a container without occupants, setItem, addItem, removeItem,
\* takeItem, clearSlot and clear send no notification to anybody.
C14_NoOccupantSilence ==
  [][(/\ call'.op \in {"setItem", "addItem", "removeItem", "takeItem",
                       "clearSlot", "clear"}
      /\ Viewers(call'.c) = {}) =>
       \A p \in Players : sent'[p] = << >>]_vars

\* C14 witness: a setItem that filled a slot of a container nobody views,
\* while a viewer has the other container open, and nothing was sent
C14_Witness ==
  /\ call.op = "setItem" /\ call.idx \in Slots(call.c)
  /\ IsRef(storage[call.c][call.idx])
  /\ Viewers(call.c) = {}
  /\ \E p \in Players : openedContainer[p] \notin {NoContainer, call.c}
  /\ \A p \in Players : sent[p] = << >>

\* the packets of seq that are slot-delta notifications
SlotDeltas(seq) == {n \in DOMAIN seq : seq[n].kind = "slot"}

\* C15: on a container with occupants, every setItem, clearSlot and takeItem
\* that found a stack sends each occupant at least one slot-delta; every
\* slot-delta carries the resolved slot index and that occupant's identifier,
\* and the last one carries the descriptor of the slot's content as it is when
\* the call returns (the empty descriptor for an empty slot).
C15_SlotDelta ==
  [][(\/ call'.op \in {"setItem", "clearSlot"}
      \/ call'.op = "takeItem" /\ call'.src # Null) =>
       \A p \in Viewers(call'.c) :
          LET seq == sent'[p]
              deltas == SlotDeltas(seq)
          IN /\ deltas # {}
             /\ \A n \in deltas : /\ seq[n].slot = call'.idx
                                  /\ seq[n].containerId = occupants[call'.c][p]
             /\ \A n \in deltas :
                  (\A m \in deltas : m <= n) =>
                     seq[n].items[1] = DescAfter(call'.c, call'.idx)
     ]_vars

\* packet n of seq tells the viewer with identifier id about slot i
Concerns(seq, n, id, i) ==
  /\ seq[n].containerId = id
  /\ \/ seq[n].kind = "slot" /\ seq[n].slot = i
     \/ seq[n].kind = "content"

\* what packet n of seq shows slot i to hold
Shown(seq, n, i) ==
  IF seq[n].kind = "slot" THEN seq[n].items[1] ELSE seq[n].items[i + 1]

\* C19: on a container with occupants, for every slot whose content (presence
\* or stack size) a step of setItem, addItem, removeItem, takeItem, swapItems,
\* clearSlot or clear changed, each occupant has been sent a notification
\* about that slot, and the last one shows the slot's content after the
\* change.  (No later step of an addItem call notifies about a slot an earlier
\* step changed, so this is the claim at the call's return.)
C19_ViewerConsistency ==
  [][call'.op \in {"setItem", "addItem", "removeItem", "takeItem", "swapItems",
                   "clearSlot", "clear"} =>
       \A c \in Containers : \A i \in Slots(c) : \A p \in Viewers(c) :
          ~SameSlot(c, i) =>
             \E n \in DOMAIN sent'[p] :
                /\ Concerns(sent'[p], n, occupants[c][p], i)
                /\ \A m \in DOMAIN sent'[p] :
                     Concerns(sent'[p], m, occupants[c][p], i) => m <= n
                /\ Shown(sent'[p], n, i) = DescAfter(c, i)
     ]_vars

(***************************************************************************)
(* Termination of addItem.  A call that has entered the while loop keeps    *)
(* executing it: nothing pre-empts a running call, so the loop step is      *)
(* weakly fair.  An iteration that leaves every field as it found it is a   *)
(* stuttering step: the loop is still running and will never exit.          *)
(***************************************************************************)
SpecAddFair == Init /\ [][NextAdd]_vars /\ WF_vars(AddItemLoop)

\* the stack passed to the running addItem is itself the stack findIndex
\* selects: existingItem and item are one object
MergesIntoItself ==
  /\ call.pc = "loop"
  /\ items[call.item].stackSize > 0
  /\ FindExisting(World, call.c, call.item) > -1
  /\ storage[call.c][FindExisting(World, call.c, call.item)] = call.item

\* C21: addItem terminates: a call that has entered the while loop, with any
\* container content and any stackable incoming stack (a stack stored in one
\* of the container's slots with free space included), eventually returns.
C21_AddItemTerminates == (call.pc = "loop") ~> (call.pc = "idle")

=============================================================================
